---- MODULE Spec2Model ----
(***************************************************************************)
(* Model of the ingestion pipeline of TDS_Project_1_Virtual_TA:            *)
(*   - create_chunks            (src/preprocessing/chunk_maker.py)         *)
(*   - RateLimiter.wait         (src/embedding/chunks_to_embeddings.py)    *)
(*   - get_embedding, get_caption_from_url, main (same file)               *)
(* Text is a sequence of one-character strings.  Time is counted in ticks  *)
(* of 0.1 ms, far shorter than the waits of the limiter.                   *)
(***************************************************************************)
EXTENDS Integers, Sequences, FiniteSets, TLC

VARIABLES
    \* ---- create_chunks(text, chunk_size, overlap) ----
    text,         \* the argument `text` as passed by the caller
    chunk_size,   \* the argument `chunk_size`
    overlap,      \* the argument `overlap`
    norm,         \* the local `text` after line 66 (whitespace-normalized)
    chunks,       \* the local list `chunks` / the returned list
    start,        \* the local `start`
    ck_pc,        \* "idle" | "call" | "loop" | "returned"
    \* ---- RateLimiter (the one instance `rate_limiter`) ----
    clock,        \* the value time.time() returns, in ticks
    rl_rpm,       \* self.rpm
    rl_period,    \* 1.0 / self.rps, in ticks
    rl_timestamps,\* self.timestamps
    rl_last_time, \* self.last_time
    rl_calls,     \* number of wait() calls made so far (observation)
    rl_recent,    \* times at which the latest wait() calls returned (observation)
    rl_obs,       \* what the latest wait() call did (observation)
    \* ---- get_embedding / get_caption_from_url ----
    emb,          \* the running call of get_embedding: its arguments, its
                  \* loop variable, its result and what it did
    cap,          \* the same for get_caption_from_url
    script,       \* outcome of the service at each attempt, when scripted
    \* ---- chunk_maker.py as a script, then main ----
    docs,         \* the posts and markdown files chunk_maker.py reads
    db,           \* the tables of data/knowledge_base.db
    text_chunks,  \* list of (content, source_url)
    image_urls,   \* list of image urls
    embeddings,   \* the three output lists of main
    valid_chunks,
    source_urls,
    m_pc,         \* "idle" | "chunking" | "start" | "text" | "image" | "done" |
                  \* "aborted" (a query raised) | "save_raised" (np.savez raised)
    m_i,          \* number of items of the current loop already processed
    got,          \* per processed item, what the clients returned and how many
                  \* requests they issued (observation)
    saved,        \* what np.savez was given
    reported      \* the count printed on line 171

ckVars == <<text, chunk_size, overlap, norm, chunks, start, ck_pc>>
rlVars == <<clock, rl_rpm, rl_period, rl_timestamps, rl_last_time,
            rl_calls, rl_recent, rl_obs>>

clVars == <<emb, cap, script>>
mnVars == <<docs, db, text_chunks, image_urls, embeddings, valid_chunks, source_urls,
            m_pc, m_i, got, saved, reported>>

vars == <<ckVars, rlVars, clVars, mnVars>>

-----------------------------------------------------------------------------
(* Bounds of the model                                                     *)

MaxTextLen == 5
MaxChunkSize == 3
MaxOverlap == 3
MaxChunks == 7
MaxPeriod == 2     \* largest 1/rps, in default spacings of 0.5 s
MaxRpm == 2        \* largest rpm
MaxJitter == 1     \* largest time, in ticks, by which a sleep overshoots
MaxGap == 3        \* how far, in ticks, the idle time between two wait() calls
                   \* goes from the waits of the limiter
MaxCalls == 4      \* number of wait() calls followed
TicksPerPeriod == 5000 \* ticks in the default spacing 1/rps (line 30: 0.5 s)
MaxRetries == 3    \* largest max_retries tried on the two client functions
MaxTexts == 2      \* largest number of text chunks in a run
MaxImages == 1     \* largest number of image urls in a run
MaxFairItems == 2  \* most rows in a run whose termination is followed
MaxCaseLen == 3000 \* longest text split with the module's default parameters

-----------------------------------------------------------------------------
(* Text helpers                                                            *)

Chars == {"a", "b", " ", "\n"}

\* Python's str.isspace / the regex class \s, on the model's alphabet.
IsSpace(c) == c \in {" ", "\n", "\t"}

Texts == UNION {[1..n -> Chars] : n \in 0..MaxTextLen}

\* the text of n characters "a"
PlainText(n) == [i \in 1..n |-> "a"]

Max(a, b) == IF a >= b THEN a ELSE b
Min(a, b) == IF a <= b THEN a ELSE b

\* re.sub(r'\s+', ' ', s): every maximal run of whitespace becomes one ' '.
\* A position is kept when it is not whitespace or when it ends a run of
\* whitespace; a kept whitespace character becomes ' '.
CollapseWs(s) ==
    LET kept == SelectSeq([i \in 1..Len(s) |-> i],
                          LAMBDA i : \/ ~IsSpace(s[i])
                                     \/ i = Len(s)
                                     \/ ~IsSpace(s[i + 1]))
    IN  [j \in 1..Len(kept) |-> IF IsSpace(s[kept[j]]) THEN " " ELSE s[kept[j]]]

RECURSIVE LStrip(_)
LStrip(s) ==
    IF s # <<>> /\ IsSpace(Head(s)) THEN LStrip(Tail(s)) ELSE s

RECURSIVE RStrip(_)
RStrip(s) ==
    IF s # <<>> /\ IsSpace(s[Len(s)]) THEN RStrip(SubSeq(s, 1, Len(s) - 1)) ELSE s

\* str.strip()
Strip(s) == RStrip(LStrip(s))

\* line 66 mutated: the result is not stripped
NormalizeNoStrip(s) == CollapseWs(s)
\* line 66: text = re.sub(r'\s+', ' ', text).strip()
Normalize(s) == Strip(CollapseWs(s))

\* Python's s[lo:hi] with its treatment of negative and out-of-range indices
\* (indices are 0-based, hi exclusive).  ClampIndexShort is ClampIndex
\* mutated: an index past the end is brought to the last character.
ClampIndexShort(i, n) == IF i < 0 THEN Max(i + n, 0) ELSE Min(i, n - 1)
ClampIndex(i, n) == IF i < 0 THEN Max(i + n, 0) ELSE Min(i, n)
\* line 74 mutated: the character at index hi is included
PySliceClosed(s, lo, hi) ==
    LET l == ClampIndex(lo, Len(s))
        h == ClampIndex(hi + 1, Len(s))
    IN  IF l < h THEN SubSeq(s, l + 1, h) ELSE <<>>
\* line 74: text[start:end]
PySlice(s, lo, hi) ==
    LET l == ClampIndex(lo, Len(s))
        h == ClampIndex(hi, Len(s))
    IN  IF l < h THEN SubSeq(s, l + 1, h) ELSE <<>>

-----------------------------------------------------------------------------
(* create_chunks, chunk_maker.py lines 63-76                               *)

\* lines 15-16: the default parameters
CHUNK_SIZE == 1000
CHUNK_OVERLAP == 200

\* line 67 mutated: strict comparison
FitsOneChunkStrict(n, size) == Len(n) < size
\* line 67: len(text) <= chunk_size
FitsOneChunk(n, size) == Len(n) <= size

\* line 75 mutated: the overlap is ignored
NextStartNoOverlap(s, size, ov) == s + size
\* line 75: start += chunk_size - overlap
NextStart(s, size, ov) == s + size - ov

\* lines 64-71: the guards and early returns before the loop
CreateChunksEnter ==
    /\ ck_pc = "call"
    /\ IF text = <<>>
       THEN /\ chunks' = <<>>                       \* line 65
            /\ ck_pc' = "returned"
            /\ UNCHANGED <<norm, start>>
       ELSE /\ norm' = Normalize(text)              \* line 66
            /\ IF FitsOneChunk(norm', chunk_size)
               THEN /\ chunks' = <<norm'>>          \* line 68
                    /\ ck_pc' = "returned"
                    /\ UNCHANGED start
               ELSE /\ chunks' = <<>>               \* line 70
                    /\ start' = 0                   \* line 71
                    /\ ck_pc' = "loop"
    /\ UNCHANGED <<text, chunk_size, overlap>>
    /\ UNCHANGED <<rlVars, clVars, mnVars>>

\* lines 72-75: one iteration of the while loop
CreateChunksLoop ==
    /\ ck_pc = "loop"
    /\ start < Len(norm)
    /\ Len(chunks) < MaxChunks
    /\ chunks' = Append(chunks, PySlice(norm, start, start + chunk_size))
    /\ start' = NextStart(start, chunk_size, overlap)
    /\ UNCHANGED <<text, chunk_size, overlap, norm, ck_pc>>
    /\ UNCHANGED <<rlVars, clVars, mnVars>>

\* line 72 false, line 76: return chunks
CreateChunksReturn ==
    /\ ck_pc = "loop"
    /\ ~(start < Len(norm))
    /\ ck_pc' = "returned"
    /\ UNCHANGED <<text, chunk_size, overlap, norm, chunks, start>>
    /\ UNCHANGED <<rlVars, clVars, mnVars>>

\* lines 72-75 as a function: the chunks appended from `s` on (the loop ends
\* when overlap < chunk_size)
RECURSIVE ChunksFrom(_, _, _, _)
ChunksFrom(n, s, size, ov) ==
    IF s < Len(n)
    THEN <<PySlice(n, s, s + size)>> \o ChunksFrom(n, NextStart(s, size, ov), size, ov)
    ELSE <<>>

\* lines 63-76: the list create_chunks returns, when it returns
create_chunks(t, size, ov) ==
    IF t = <<>> THEN <<>>
    ELSE LET n == Normalize(t)
         IN  IF FitsOneChunk(n, size) THEN <<n>> ELSE ChunksFrom(n, 0, size, ov)

CkIdle ==
    /\ text = <<>> /\ chunk_size = 1 /\ overlap = 0 /\ norm = <<>>
    /\ chunks = <<>> /\ start = 0 /\ ck_pc = "idle"

-----------------------------------------------------------------------------
(* RateLimiter, chunks_to_embeddings.py lines 29-49                        *)

\* line 30: def __init__(self, rpm=60, rps=2)
DefaultRps == 2

\* lines 43, 45, 47: the length of the sliding window, in seconds
WindowSeconds == 60

\* The unit of time: with rps = 2 the spacing 1/rps is TicksPerPeriod ticks.
TicksPerSecond == DefaultRps * TicksPerPeriod

\* the sliding window, in ticks
Window == WindowSeconds * TicksPerSecond

\* 1/rps of the default limiter, in ticks
DefaultPeriod == TicksPerSecond \div DefaultRps

\* time.time() when the process starts: far from the initial last_time = 0.
Epoch == Window + MaxPeriod * TicksPerPeriod + 1

Last(q) == q[Len(q)]

\* lines 39-40 mutated: the sleep is not guarded by the comparison
SpacingSleepUnguarded(delta, period) == period - delta
\* lines 39-40: the argument of the first sleep (0 when it is skipped)
SpacingSleep(delta, period) == IF delta < period THEN period - delta ELSE 0

\* lines 43, 47 mutated: an entry exactly one window old is kept
PruneInclusive(ts, t) == SelectSeq(ts, LAMBDA x : t - x <= Window)
\* lines 43, 47: [t for t in self.timestamps if <t> - t < 60]
Prune(ts, t) == SelectSeq(ts, LAMBDA x : t - x < Window)

\* line 45: wait_time = 60 - (now - self.timestamps[0])
WindowWait(now, oldest) == Window - (now - oldest)

\* One call of wait() that starts at time `now`.  Running the statements
\* takes no time; a sleep lasts its argument plus an overshoot (j1 for the
\* sleep of line 40, j2 for the sleep of line 46).  Yields the limiter's new
\* fields, the time at which the call ends and what it did.  time.sleep
\* raises ValueError on a negative argument.
WaitCall(last_time, timestamps, rpm, period, now, j1, j2) ==
    LET delta   == now - last_time                            \* line 38
        sleep1  == SpacingSleep(delta, period)                \* lines 39-40
        t1      == IF sleep1 > 0 THEN now + sleep1 + j1 ELSE now    \* line 41
        pruned  == Prune(timestamps, now)                     \* line 43
        full    == Len(pruned) >= rpm                         \* line 44
        sleep2  == IF full THEN WindowWait(now, pruned[1]) ELSE 0   \* line 45
        t2      == IF full THEN t1 + sleep2 + j2 ELSE t1      \* lines 46, 47, 49
        kept    == IF full THEN Prune(pruned, t2) ELSE pruned \* line 47
        seen    == [arrival |-> now, sleep1 |-> sleep1, sleep2 |-> sleep2,
                    full |-> full,
                    oldest |-> IF full THEN pruned[1] ELSE 0]
    IN  IF sleep1 < 0
        THEN [last_time |-> last_time, timestamps |-> timestamps,
              clock |-> now, obs |-> [seen EXCEPT !.sleep2 = 0] @@ [result |-> "raised"]]
        ELSE IF sleep2 < 0
        THEN [last_time |-> t1, timestamps |-> pruned,
              clock |-> t1, obs |-> seen @@ [result |-> "raised"]]
        ELSE [last_time |-> t1, timestamps |-> Append(kept, t2),
              clock |-> t2, obs |-> seen @@ [result |-> "returned"]]

NoObs == [arrival |-> 0, sleep1 |-> 0, sleep2 |-> 0, full |-> FALSE,
          oldest |-> 0, result |-> "none"]

\* The return times of the latest rpm + 1 calls.
Remember(recent, t, rpm) ==
    LET q == Append(recent, t)
    IN  IF Len(q) > rpm + 1 THEN SubSeq(q, Len(q) - rpm, Len(q)) ELSE q

\* rate_limiter.wait() called now, with sleep overshoots j1 and j2
WaitNow(j1, j2) ==
    WaitCall(rl_last_time, rl_timestamps, rl_rpm, rl_period, clock, j1, j2)

\* The overshoots in J that the call of wait() made now can meet: those of
\* the sleep of line 40 and of the sleep of line 46, 0 for a sleep it skips.
Overshoots1(J) == IF WaitNow(0, 0).obs.sleep1 > 0 THEN J ELSE {0}
Overshoots2(J) == IF WaitNow(0, 0).obs.full THEN J ELSE {0}

\* The effect on the limiter and the clock of the wait() call w, followed by
\* `after` more ticks spent by the caller before it goes on.
RLCommit(w, after) ==
    /\ rl_last_time' = w.last_time
    /\ rl_timestamps' = w.timestamps
    /\ clock' = w.clock + after
    /\ rl_obs' = w.obs
    /\ rl_calls' = rl_calls + 1
    /\ rl_recent' = IF w.obs.result = "returned"
                    THEN Remember(rl_recent, w.clock, rl_rpm)
                    ELSE rl_recent
    /\ UNCHANGED <<rl_rpm, rl_period>>

RLApply(j1, j2) == RLCommit(WaitNow(j1, j2), 0)

\* lines 30-34: __init__
RLInit(rpm, period) ==
    /\ clock = Epoch
    /\ rl_rpm = rpm
    /\ rl_period = period
    /\ rl_timestamps = <<>>
    /\ rl_last_time = 0
    /\ rl_calls = 0
    /\ rl_recent = <<>>
    /\ rl_obs = NoObs

\* A caller calls rate_limiter.wait()
RLWait ==
    /\ rl_calls < MaxCalls
    /\ \E j1 \in Overshoots1(0..MaxJitter), j2 \in Overshoots2(0..MaxJitter) :
          RLApply(j1, j2)
    /\ UNCHANGED <<ckVars, clVars, mnVars>>

\* The times a caller lets pass between the return of a call and the next
\* call: within MaxGap ticks of nothing, of the spacing, of the window, and of
\* the window less the spacing.
IdleTimes(period) ==
    {b + e : b \in {0, period, Window - period, Window}, e \in (0 - MaxGap)..MaxGap}
        \cap Nat

\* Time passes between two calls.
RLTick ==
    /\ rl_calls > 0
    /\ rl_calls < MaxCalls
    /\ rl_recent # <<>>
    /\ \E idle \in IdleTimes(rl_period) :
          /\ Last(rl_recent) + idle > clock
          /\ clock' = Last(rl_recent) + idle
    /\ UNCHANGED <<rl_rpm, rl_period, rl_timestamps, rl_last_time,
                   rl_calls, rl_recent, rl_obs>>
    /\ UNCHANGED <<ckVars, clVars, mnVars>>

-----------------------------------------------------------------------------
(* get_embedding and get_caption_from_url, lines 54-109                    *)

EmbedMaxRetries == 3
CaptionMaxRetries == 2

\* A value returned by a client function: None, or a list / string.
None == [ok |-> FALSE, val |-> <<>>]
Some(v) == [ok |-> TRUE, val |-> v]
\* lines 154, 162, 164 mutated: the test is `is not None`
TruthyNotNone(r) == r.ok
\* Python's truth value of such a result: `if embedding:`, `if caption:`
Truthy(r) == r.ok /\ r.val # <<>>

\* What the embedding service can answer: a vector (its length is up to the
\* service), or an exception.
Vectors == {<<>>, <<1>>, <<1, 2>>}
EmbedOutcomes ==
    {[kind |-> "exc", val |-> <<>>]} \cup {[kind |-> "ok", val |-> v] : v \in Vectors}

\* What an attempt to caption can meet: an exception (download or model), a
\* non-200 status, or the text of the model's answer.
CaptionTexts == {<<" ">>, <<" ", "b", "\n">>}
CaptionOutcomes ==
    {[kind |-> "exc", val |-> <<>>], [kind |-> "status", val |-> <<>>]}
        \cup {[kind |-> "ok", val |-> c] : c \in CaptionTexts}

Idle == [pc |-> "idle", arg |-> <<>>, max |-> 0, attempt |-> 0, result |-> None,
         sleeps |-> <<>>, tries |-> 0, log |-> <<>>]

\* A call that has just been entered: range(max_retries) starts at 0.
Entered(arg, max) == [Idle EXCEPT !.pc = "running", !.arg = arg, !.max = max]

\* lines 68, 107 mutated: linear instead of exponential
BackoffLinear(attempt) == 2 * attempt
\* lines 68, 107: 2 ** attempt, in seconds
Backoff(attempt) == 2 ^ attempt

\* line 65: attempt == max_retries - 1
IsLastAttempt(attempt, max) == attempt = max - 1

\* lines 64-70: the except branch of get_embedding
EmbedFailed(f, o) ==
    IF IsLastAttempt(f.attempt, f.max)
    THEN [f EXCEPT !.pc = "returned", !.result = None,        \* line 67
                   !.log = Append(@, o)]
    ELSE [f EXCEPT !.attempt = @ + 1,                         \* lines 68-70
                   !.sleeps = Append(@, Backoff(f.attempt)),
                   !.log = Append(@, o)]

\* line 63: return response["embedding"]
EmbedSucceeded(f, o) ==
    [f EXCEPT !.pc = "returned", !.result = Some(o.val), !.log = Append(@, o)]

\* lines 105-107: the except branch of get_caption_from_url
CaptionFailed(f, o) ==
    [f EXCEPT !.attempt = @ + 1,
              !.sleeps = Append(@, Backoff(f.attempt)),
              !.log = Append(@, o)]

\* line 103: return gemini_response.text.strip()
CaptionSucceeded(f, o) ==
    [f EXCEPT !.pc = "returned", !.result = Some(Strip(o.val)), !.log = Append(@, o)]

\* How long a request lasts: no time, or as long as the default spacing.
RequestTimes == {0, DefaultPeriod}

\* The time.sleep a frame has just been given, in ticks (0 if none).
SleptTicks(before, after) ==
    IF Len(after.sleeps) > Len(before.sleeps)
    THEN Last(after.sleeps) * TicksPerSecond
    ELSE 0

\* lines 55-70: one iteration of the loop of get_embedding, the service
\* answering o, the limiter's sleeps overshooting by j1 and j2 in J, the
\* request and the backoff sleep lasting j3 in D more than the sleep asked for
EmbedAttempt(o, J, D) ==
    /\ emb.pc = "running"
    /\ emb.attempt < emb.max
    /\ \E j1 \in Overshoots1(J), j2 \in Overshoots2(J), j3 \in D :
         LET w    == WaitNow(j1, j2)                          \* line 57
             f    == IF w.obs.result = "raised"
                     THEN EmbedFailed(emb, [kind |-> "exc", val |-> <<>>])
                     ELSE IF o.kind = "ok"
                          THEN EmbedSucceeded([emb EXCEPT !.tries = @ + 1], o)
                          ELSE EmbedFailed([emb EXCEPT !.tries = @ + 1], o)
         IN  /\ emb' = f
             /\ RLCommit(w, SleptTicks(emb, f) + j3)
    /\ UNCHANGED <<cap, script>>
    /\ UNCHANGED ckVars

\* line 71: the loop ended without a return (max_retries <= 0)
EmbedLoopEnd ==
    /\ emb.pc = "running"
    /\ ~(emb.attempt < emb.max)
    /\ emb' = [emb EXCEPT !.pc = "returned", !.result = None]
    /\ UNCHANGED <<cap, script>>
    /\ UNCHANGED <<ckVars, rlVars>>

\* lines 82-107: one iteration of the loop of get_caption_from_url, the
\* download and the model answering o, with the same overshoots
CaptionAttempt(o, J, D) ==
    /\ cap.pc = "running"
    /\ cap.attempt < cap.max
    /\ \E j1 \in Overshoots1(J), j2 \in Overshoots2(J), j3 \in D :
         LET w    == WaitNow(j1, j2)                          \* line 84
             f    == IF w.obs.result = "raised"
                     THEN CaptionFailed(cap, [kind |-> "exc", val |-> <<>>])
                     ELSE IF o.kind = "ok"
                          THEN CaptionSucceeded([cap EXCEPT !.tries = @ + 1], o)
                          ELSE CaptionFailed([cap EXCEPT !.tries = @ + 1], o)
         IN  /\ cap' = f
             /\ RLCommit(w, SleptTicks(cap, f) + j3)
    /\ UNCHANGED <<emb, script>>
    /\ UNCHANGED ckVars

\* line 109: the loop ended without a return
CaptionLoopEnd ==
    /\ cap.pc = "running"
    /\ ~(cap.attempt < cap.max)
    /\ cap' = [cap EXCEPT !.pc = "returned", !.result = None]
    /\ UNCHANGED <<emb, script>>
    /\ UNCHANGED <<ckVars, rlVars>>

ClIdle == emb = Idle /\ cap = Idle /\ script = <<>>

\* The two functions driven by one script of attempt outcomes.
ScriptedEmbed ==
    /\ emb.attempt < Len(script)
    /\ IF script[emb.attempt + 1] = "ok"
       THEN \E v \in Vectors : EmbedAttempt([kind |-> "ok", val |-> v], 0..MaxJitter, RequestTimes)
       ELSE EmbedAttempt([kind |-> "exc", val |-> <<>>], 0..MaxJitter, RequestTimes)
    /\ UNCHANGED mnVars

ScriptedCaption ==
    /\ cap.attempt < Len(script)
    /\ IF script[cap.attempt + 1] = "ok"
       THEN \E c \in CaptionTexts :
                CaptionAttempt([kind |-> "ok", val |-> c], 0..MaxJitter, RequestTimes)
       ELSE \E k \in {"exc", "status"} :
                CaptionAttempt([kind |-> k, val |-> <<>>], 0..MaxJitter, RequestTimes)
    /\ UNCHANGED mnVars

ScriptedEmbedEnd == EmbedLoopEnd /\ UNCHANGED mnVars
ScriptedCaptionEnd == CaptionLoopEnd /\ UNCHANGED mnVars

-----------------------------------------------------------------------------
(* main, lines 143-171                                                     *)

\* The database: the rows of markdown_chunks and of discourse_chunks, whether
\* the table image_chunks exists, and its rows.
Db(md, dc, hasImages, imgs) ==
    [markdown |-> md, discourse |-> dc, image_table |-> hasImages, images |-> imgs]
EmptyDb == Db(<<>>, <<>>, FALSE, <<>>)

\* chunk_maker.py line 101: a post whose cleaned text is shorter is skipped
MinPostLen == 20

\* What chunk_maker.py reads, in the order in which glob lists the files.  A
\* post: its topic (one post per topic) and its text as clean_html returns it
\* (line 100).  A markdown file: its source url (lines 125-126), the image
\* urls line 129 finds in it, and its text as lines 138-143 leave it.
Post(topic, cleaned) == [topic |-> topic, cleaned |-> cleaned]
File(id, images, cleaned) == [id |-> id, images |-> images, cleaned |-> cleaned]
NoDocs == [posts |-> <<>>, files |-> <<>>]

\* chunk_maker.py line 105: the source_url of chunk i of a post
DiscourseUrl(topic, i) == <<"text-url", "t", topic, i>>
\* chunk_maker.py lines 125-126: the source_url of the chunks of a file
MarkdownUrl(id) == <<"text-url", "md", id>>

\* chunk_maker.py lines 97-111: the rows one post adds to discourse_chunks
PostRows(p) ==
    IF Len(p.cleaned) < MinPostLen
    THEN <<>>
    ELSE LET cs == create_chunks(p.cleaned, CHUNK_SIZE, CHUNK_OVERLAP)
         IN  [i \in 1..Len(cs) |-> <<cs[i], DiscourseUrl(p.topic, i - 1)>>]

\* chunk_maker.py lines 145-151: the rows one file adds to markdown_chunks
FileRows(f) ==
    LET cs == create_chunks(f.cleaned, CHUNK_SIZE, CHUNK_OVERLAP)
    IN  [i \in 1..Len(cs) |-> <<cs[i], MarkdownUrl(f.id)>>]

RECURSIVE Flatten(_)
Flatten(qs) == IF qs = <<>> THEN <<>> ELSE Head(qs) \o Flatten(Tail(qs))

\* chunk_maker.py lines 26-54: CREATE TABLE IF NOT EXISTS for the three tables
create_tables(d) == [d EXCEPT !.image_table = TRUE]

\* chunk_maker.py lines 78-112
process_discourse_json(d, posts) ==
    [d EXCEPT !.discourse = @ \o Flatten([i \in 1..Len(posts) |-> PostRows(posts[i])])]

\* chunk_maker.py lines 114-154
process_markdown_files(d, files) ==
    [d EXCEPT !.images = @ \o Flatten([i \in 1..Len(files) |-> files[i].images]),
              !.markdown = @ \o Flatten([i \in 1..Len(files) |-> FileRows(files[i])])]

\* chunk_maker.py lines 156-162: the script, on the database d
chunk_maker(d, src) ==
    process_markdown_files(process_discourse_json(create_tables(d), src.posts), src.files)

\* chunk_maker.py runs on the documents before main reads the database
ChunkMakerMain ==
    /\ m_pc = "chunking"
    /\ db' = chunk_maker(db, docs)
    /\ m_pc' = "start"
    /\ UNCHANGED <<docs, text_chunks, image_urls, embeddings, valid_chunks, source_urls,
                   m_i, got, saved, reported>>
    /\ UNCHANGED <<clVars, ckVars, rlVars>>

\* How a call ends: it returns a value or raises.
Returned(v) == [raised |-> FALSE, val |-> v]
RaisedError == [raised |-> TRUE, val |-> <<>>]

\* lines 116-124: the two SELECTs, markdown_chunks + discourse_chunks
get_text_chunks_from_db(d) == Returned(d.markdown \o d.discourse)

\* lines 133-134: the SELECT on image_chunks raises sqlite3.OperationalError
\* when the table does not exist
SelectImages(d) == IF d.image_table THEN Returned(d.images) ELSE RaisedError

\* lines 135-137 mutated: the sqlite3.Error is not caught
get_image_urls_uncaught(d) == SelectImages(d)
\* lines 127-140: the error is caught and the list is empty
get_image_urls_from_db(d) ==
    LET q == SelectImages(d)
    IN  IF q.raised THEN Returned(<<>>) ELSE q

\* line 166: the prefix of f"[IMAGE] {caption}"
ImagePrefix == <<"[", "I", "M", "A", "G", "E", "]", " ">>

NoSave == [chunks |-> <<>>, embeddings |-> <<>>, source_urls |-> <<>>]

\* lines 154, 164 mutated: the result is not tested
AcceptsAnything(r) == TRUE
\* lines 154, 164: `if embedding:`
Accepts(r) == Truthy(r)

\* lines 155-157 and 165-167 mutated: the url is appended outside the `if`
AppendUrlAlways(urls, r, url) == Append(urls, url)
\* lines 157, 167: source_urls.append(url), under the `if`
AppendUrl(urls, r, url) == IF Accepts(r) THEN Append(urls, url) ELSE urls

\* lines 154-157, 164-167: the three appends for one item
AppendRecord(r, content, url) ==
    /\ embeddings' = IF Accepts(r) THEN Append(embeddings, r.val) ELSE embeddings
    /\ valid_chunks' = IF Accepts(r) THEN Append(valid_chunks, content) ELSE valid_chunks
    /\ source_urls' = AppendUrl(source_urls, r, url)

\* lines 144-149: the two queries and the three empty lists; an exception
\* of a query leaves main
MainLoad ==
    /\ m_pc = "start"
    /\ LET t == get_text_chunks_from_db(db)
           i == get_image_urls_from_db(db)
       IN  IF t.raised \/ i.raised
           THEN /\ m_pc' = "aborted"
                /\ UNCHANGED <<text_chunks, image_urls>>
           ELSE /\ text_chunks' = t.val
                /\ image_urls' = i.val
                /\ m_pc' = "text"
    /\ embeddings' = <<>>
    /\ valid_chunks' = <<>>
    /\ source_urls' = <<>>
    /\ UNCHANGED <<docs, db, m_i, got, saved, reported>>
    /\ UNCHANGED <<clVars, ckVars, rlVars>>

\* line 153: embedding = get_embedding(content)
MainEmbedText ==
    /\ m_pc = "text"
    /\ m_i < Len(text_chunks)
    /\ emb.pc = "idle"
    /\ emb' = Entered(text_chunks[m_i + 1][1], EmbedMaxRetries)
    /\ UNCHANGED <<cap, script, mnVars, ckVars, rlVars>>

\* lines 154-157: get_embedding has returned for a text chunk
MainTextResult ==
    /\ m_pc = "text"
    /\ emb.pc = "returned"
    /\ AppendRecord(emb.result, text_chunks[m_i + 1][1], text_chunks[m_i + 1][2])
    /\ got' = Append(got, [kind |-> "text", item |-> m_i + 1, caption |-> None,
                           embedded |-> TRUE, embedding |-> emb.result,
                           cap_tries |-> 0, emb_tries |-> emb.tries])
    /\ m_i' = m_i + 1
    /\ emb' = Idle
    /\ UNCHANGED <<cap, script, docs, db, text_chunks, image_urls, m_pc, saved, reported>>
    /\ UNCHANGED <<ckVars, rlVars>>

\* line 152 exhausted, line 160 begins
MainTextsDone ==
    /\ m_pc = "text"
    /\ m_i = Len(text_chunks)
    /\ emb.pc = "idle"
    /\ m_pc' = "image"
    /\ m_i' = 0
    /\ UNCHANGED <<docs, db, text_chunks, image_urls, embeddings, valid_chunks, source_urls,
                   got, saved, reported>>
    /\ UNCHANGED <<clVars, ckVars, rlVars>>

\* line 161: caption = get_caption_from_url(url)
MainCaption ==
    /\ m_pc = "image"
    /\ m_i < Len(image_urls)
    /\ cap.pc = "idle"
    /\ cap' = Entered(image_urls[m_i + 1], CaptionMaxRetries)
    /\ UNCHANGED <<emb, script, mnVars, ckVars, rlVars>>

\* lines 162-163: get_caption_from_url has returned
MainCaptionResult ==
    /\ m_pc = "image"
    /\ cap.pc = "returned"
    /\ emb.pc = "idle"
    /\ IF Truthy(cap.result)
       THEN /\ emb' = Entered(cap.result.val, EmbedMaxRetries)      \* line 163
            /\ UNCHANGED <<cap, m_i, got>>
       ELSE /\ got' = Append(got, [kind |-> "image", item |-> m_i + 1,
                                   caption |-> cap.result,
                                   embedded |-> FALSE, embedding |-> None,
                                   cap_tries |-> cap.tries, emb_tries |-> 0])
            /\ m_i' = m_i + 1
            /\ cap' = Idle
            /\ UNCHANGED emb
    /\ UNCHANGED <<script, docs, db, text_chunks, image_urls, embeddings, valid_chunks,
                   source_urls, m_pc, saved, reported>>
    /\ UNCHANGED <<ckVars, rlVars>>

\* lines 164-167: get_embedding has returned for a caption
MainImageResult ==
    /\ m_pc = "image"
    /\ emb.pc = "returned"
    /\ AppendRecord(emb.result, ImagePrefix \o cap.result.val, image_urls[m_i + 1])
    /\ got' = Append(got, [kind |-> "image", item |-> m_i + 1, caption |-> cap.result,
                           embedded |-> TRUE, embedding |-> emb.result,
                           cap_tries |-> cap.tries, emb_tries |-> emb.tries])
    /\ m_i' = m_i + 1
    /\ emb' = Idle
    /\ cap' = Idle
    /\ UNCHANGED <<script, docs, db, text_chunks, image_urls, m_pc, saved, reported>>
    /\ UNCHANGED <<ckVars, rlVars>>

\* line 170: np.savez turns each list into an array. The lists of strings
\* always convert. Embeddings of one length give a matrix; embeddings of
\* different lengths are stored as an array of objects by NumPy before 1.24
\* and refused with a ValueError by NumPy 1.24 and later. The repository
\* pins no version, so both outcomes are kept.
Homogeneous(vs) == \A p \in 1..Len(vs) : Len(vs[p]) = Len(vs[1])

SavezAccepts(vs) == IF Homogeneous(vs) THEN {TRUE} ELSE {TRUE, FALSE}

\* lines 170-171: np.savez(...) and the printed count; a ValueError of
\* np.savez leaves main before line 171
MainSave ==
    /\ m_pc = "image"
    /\ m_i = Len(image_urls)
    /\ cap.pc = "idle"
    /\ \E accepted \in SavezAccepts(embeddings) :
          IF accepted
          THEN /\ saved' = [chunks |-> valid_chunks, embeddings |-> embeddings,
                            source_urls |-> source_urls]
               /\ reported' = Len(valid_chunks)
               /\ m_pc' = "done"
          ELSE /\ m_pc' = "save_raised"
               /\ UNCHANGED <<saved, reported>>
    /\ UNCHANGED <<docs, db, text_chunks, image_urls, embeddings, valid_chunks, source_urls,
                   m_i, got>>
    /\ UNCHANGED <<clVars, ckVars, rlVars>>

\* the embedding service answers an attempt of get_embedding
MainEmbedAttempt ==
    /\ \E o \in EmbedOutcomes : EmbedAttempt(o, 0..MaxJitter, RequestTimes)
    /\ UNCHANGED mnVars

\* the download and the caption model answer an attempt of get_caption_from_url
MainCaptionAttempt ==
    /\ \E o \in CaptionOutcomes : CaptionAttempt(o, 0..MaxJitter, RequestTimes)
    /\ UNCHANGED mnVars

MainCaptionEnd == CaptionLoopEnd /\ UNCHANGED mnVars

MnIdle ==
    /\ docs = NoDocs
    /\ db = EmptyDb
    /\ text_chunks = <<>> /\ image_urls = <<>>
    /\ embeddings = <<>> /\ valid_chunks = <<>> /\ source_urls = <<>>
    /\ m_pc = "idle" /\ m_i = 0 /\ got = <<>> /\ saved = NoSave /\ reported = 0

-----------------------------------------------------------------------------
(* Specifications                                                          *)

\* create_chunks applied to every small text and parameter choice
InitChunk ==
    /\ RLInit(1, 0)
    /\ ClIdle
    /\ MnIdle
    /\ text \in Texts
    /\ chunk_size \in 1..MaxChunkSize
    /\ overlap \in 0..MaxOverlap
    /\ norm = <<>>
    /\ chunks = <<>>
    /\ start = 0
    /\ ck_pc = "call"

NextChunk ==
    \/ CreateChunksEnter
    \/ CreateChunksLoop
    \/ CreateChunksReturn

SpecChunk == InitChunk /\ [][NextChunk]_vars

\* Texts without whitespace, n characters long: PlainText, or "a" with a "b"
\* at every offset that is a multiple of CHUNK_SIZE - CHUNK_OVERLAP.
MarkedText(n) ==
    [i \in 1..n |-> IF (i - 1) % (CHUNK_SIZE - CHUNK_OVERLAP) = 0 THEN "b" ELSE "a"]
CaseTexts ==
    UNION {{PlainText(n), MarkedText(n)} : n \in {m \in 0..MaxCaseLen : m % 100 = 0}}

\* create_chunks(text) called with its default parameters, as lines 103 and
\* 145 call it, on long texts
InitCase ==
    /\ RLInit(1, 0)
    /\ ClIdle
    /\ MnIdle
    /\ text \in CaseTexts
    /\ chunk_size = CHUNK_SIZE
    /\ overlap = CHUNK_OVERLAP
    /\ norm = <<>>
    /\ chunks = <<>>
    /\ start = 0
    /\ ck_pc = "call"

SpecCase == InitCase /\ [][NextChunk]_vars

\* the limiter under every arrival pattern of wait() calls
InitRL ==
    /\ CkIdle
    /\ ClIdle
    /\ MnIdle
    /\ \E rpm \in 1..MaxRpm, k \in 0..MaxPeriod : RLInit(rpm, k * TicksPerPeriod)

NextRL ==
    \/ RLWait
    \/ RLTick

SpecRL == InitRL /\ [][NextRL]_vars

\* get_embedding and get_caption_from_url, each called once with the same
\* max_retries and meeting the same outcomes attempt by attempt
InitRetry ==
    /\ CkIdle
    /\ MnIdle
    /\ RLInit(MaxRpm, DefaultPeriod)
    /\ script \in [1..MaxRetries -> {"ok", "fail"}]
    /\ \E n \in 0..MaxRetries :
         /\ emb = Entered(<<"a">>, n)
         /\ cap = Entered(<<"image-url", 1>>, n)

NextRetry ==
    \/ ScriptedEmbed
    \/ ScriptedCaption
    \/ ScriptedEmbedEnd
    \/ ScriptedCaptionEnd

SpecRetry == InitRetry /\ [][NextRetry]_vars

ImageUrls(m) == [i \in 1..m |-> <<"image-url", i>>]

\* Documents that give n text rows, k of them in markdown_chunks, and m image
\* rows: a post too short to be kept, n - k posts, and k files of which the
\* first holds the images (a file without text when k = 0).
DocsOf(n, k, m) ==
    [posts |-> <<Post(0, PlainText(MinPostLen - 1))>>
                  \o [i \in 1..(n - k) |-> Post(i, PlainText(MinPostLen + i))],
     files |-> IF k = 0
               THEN IF m = 0 THEN <<>> ELSE <<File(0, ImageUrls(m), <<>>)>>
               ELSE [i \in 1..k |->
                        File(i, IF i = 1 THEN ImageUrls(m) ELSE <<>>, PlainText(i))]]

\* The documents of a run: the text rows are split between the two tables in
\* every way when there is no image, and evenly otherwise.
Sources ==
    {DocsOf(q[1], q[2], q[3]) :
        q \in {r \in (0..MaxTexts) \X (0..MaxTexts) \X (0..MaxImages) :
                  /\ r[2] <= r[1]
                  /\ r[3] > 0 => r[2] = r[1] \div 2}}

\* Databases written without the table image_chunks, which the present
\* create_tables always creates: their text tables are as chunk_maker.py
\* fills them.
OldDatabases ==
    {[chunk_maker(EmptyDb, DocsOf(q[1], q[2], 0)) EXCEPT !.image_table = FALSE] :
        q \in {r \in (0..MaxTexts) \X (0..MaxTexts) : r[2] <= r[1]}}

\* the rows main has to process
Items(d) == Len(d.markdown) + Len(d.discourse) + Len(d.images)

\* The pipeline starts: chunk_maker.py is about to run on the documents src,
\* or (pc = "start") main is about to run on the database d.
InitOn(src, d, pc) ==
    /\ CkIdle
    /\ RLInit(MaxRpm, DefaultPeriod)
    /\ ClIdle
    /\ docs = src
    /\ db = d
    /\ text_chunks = <<>>
    /\ image_urls = <<>>
    /\ embeddings = <<>>
    /\ valid_chunks = <<>>
    /\ source_urls = <<>>
    /\ m_pc = pc
    /\ m_i = 0
    /\ got = <<>>
    /\ saved = NoSave
    /\ reported = 0

\* one run of the pipeline
Init ==
    \/ \E src \in Sources : InitOn(src, EmptyDb, "chunking")
    \/ \E d \in OldDatabases : InitOn(NoDocs, d, "start")

\* one run of the pipeline with at most MaxFairItems rows to process
InitFair ==
    \/ \E src \in {x \in Sources : Items(chunk_maker(EmptyDb, x)) <= MaxFairItems} :
            InitOn(src, EmptyDb, "chunking")
    \/ \E d \in {x \in OldDatabases : Items(x) <= MaxFairItems} :
            InitOn(NoDocs, d, "start")

Next ==
    \/ ChunkMakerMain
    \/ MainLoad
    \/ MainEmbedText
    \/ MainEmbedAttempt
    \/ MainTextResult
    \/ MainTextsDone
    \/ MainCaption
    \/ MainCaptionAttempt
    \/ MainCaptionEnd
    \/ MainCaptionResult
    \/ MainImageResult
    \/ MainSave

Spec == Init /\ [][Next]_vars

\* the run is one sequential thread: it keeps taking its next step
SpecFair == InitFair /\ [][Next]_vars /\ WF_vars(Next)

-----------------------------------------------------------------------------
(* Reference definitions used to state the chunking claims                 *)

\* End (exclusive, 1-based) of the first word of a text that starts with a
\* non-whitespace character.
WordEnd(t) ==
    CHOOSE k \in 1..(Len(t) + 1) :
        /\ k = Len(t) + 1 \/ IsSpace(t[k])
        /\ \A j \in 1..(k - 1) : ~IsSpace(t[j])

\* The maximal whitespace-free runs of a text, in order.
RECURSIVE Words(_)
Words(t) ==
    IF t = <<>> THEN <<>>
    ELSE IF IsSpace(Head(t)) THEN Words(Tail(t))
    ELSE <<SubSeq(t, 1, WordEnd(t) - 1)>> \o Words(SubSeq(t, WordEnd(t), Len(t)))

\* The words separated by exactly one space, nothing before or after.
RECURSIVE JoinWords(_)
JoinWords(ws) ==
    IF ws = <<>> THEN <<>>
    ELSE IF Len(ws) = 1 THEN ws[1]
    ELSE ws[1] \o <<" ">> \o JoinWords(Tail(ws))

WhitespaceNormalized(t) == JoinWords(Words(t))

CeilDiv(a, b) == (a + b - 1) \div b

-----------------------------------------------------------------------------
(* Claims about create_chunks                                              *)

\* C9 (as amended): for every text of length at most chunk_size whose
\* whitespace-normalized form is not empty, create_chunks returns exactly
\* one chunk, equal to the whitespace-normalized input; for the empty text
\* it returns the empty sequence.
C9_SingleChunk ==
    /\ (ck_pc = "returned" /\ Len(text) <= chunk_size
                           /\ WhitespaceNormalized(text) # <<>>)
            => chunks = <<WhitespaceNormalized(text)>>
    /\ (ck_pc = "returned" /\ text = <<>>) => chunks = <<>>

\* C9 witness: a short text that normalization changes was returned as one chunk.
C9_Witness ==
    /\ ck_pc = "returned"
    /\ Len(text) <= chunk_size
    /\ WhitespaceNormalized(text) # text
    /\ WhitespaceNormalized(text) # <<>>
    /\ chunks = <<WhitespaceNormalized(text)>>

\* C9 as originally stated: for all text (the empty text included) of length
\* at most chunk_size, exactly one chunk equal to the normalized input.
C9_Original ==
    (ck_pc = "returned" /\ Len(text) <= chunk_size)
        => chunks = <<WhitespaceNormalized(text)>>

\* C10 (as amended): for normalized text of length L > chunk_size and
\* 0 <= overlap < chunk_size, the number of chunks is ceil(L / s) with
\* s = chunk_size - overlap.
C10_ChunkCount ==
    (ck_pc = "returned" /\ overlap < chunk_size /\ Len(norm) > chunk_size)
        => Len(chunks) = CeilDiv(Len(norm), chunk_size - overlap)

\* C10 witness: a long text was split and the two formulas disagree.
C10_Witness ==
    /\ ck_pc = "returned"
    /\ overlap < chunk_size
    /\ Len(norm) > chunk_size
    /\ Len(chunks) = CeilDiv(Len(norm), chunk_size - overlap)
    /\ Len(chunks) # CeilDiv(Len(norm) - overlap, chunk_size - overlap)

\* C10 as originally stated: the number of chunks is ceil((L - overlap) / s).
C10_Original ==
    (ck_pc = "returned" /\ overlap < chunk_size /\ Len(norm) > chunk_size)
        => Len(chunks) = CeilDiv(Len(norm) - overlap, chunk_size - overlap)

\* the lengths of the chunks, in order
ChunkLengths == [i \in 1..Len(chunks) |-> Len(chunks[i])]

\* C11 (as amended): create_chunks of a 2400-character text without
\* whitespace, with chunk_size = 1000 and overlap = 200, returns exactly 3
\* chunks, of lengths 1000, 1000, 800, chunk i + 1 starting 800 characters
\* after chunk i.
C11_Case2400 ==
    (ck_pc = "returned" /\ Len(text) = 2400 /\ chunk_size = 1000 /\ overlap = 200)
        => /\ Len(chunks) = 3
           /\ ChunkLengths = <<1000, 1000, 800>>
           /\ \A i \in 1..3 :
                 chunks[i] = SubSeq(text, 800 * (i - 1) + 1,
                                    Min(800 * (i - 1) + 1000, 2400))

\* C11 witness: the 2400-character text marked every 800 characters was
\* split into three chunks that each begin with a mark.
C11_Witness ==
    /\ ck_pc = "returned"
    /\ text = MarkedText(2400)
    /\ chunk_size = 1000 /\ overlap = 200
    /\ Len(chunks) = 3
    /\ \A i \in 1..3 : chunks[i][1] = "b"
    /\ Len(chunks[3]) = 800

\* C11 as originally stated: the three chunks have lengths 1000, 1000, 600.
C11_Original ==
    (ck_pc = "returned" /\ Len(text) = 2400 /\ chunk_size = 1000 /\ overlap = 200)
        => /\ Len(chunks) = 3
           /\ ChunkLengths = <<1000, 1000, 600>>

\* offset (0-based) at which chunk number i (from 1) starts
OffsetOf(i) == (i - 1) * (chunk_size - overlap)

\* C17 (as amended): for normalized text of length L > chunk_size and
\* 0 <= overlap < chunk_size, chunk i is the substring that starts at offset
\* i * (chunk_size - overlap) and has length chunk_size, cut at the end of
\* the text: a chunk whose window ends within the text has length exactly
\* chunk_size, every later chunk (there can be several) has the length
\* L - offset < chunk_size.
C17_Windows ==
    (ck_pc = "returned" /\ overlap < chunk_size /\ Len(norm) > chunk_size) =>
        \A i \in 1..Len(chunks) :
            /\ OffsetOf(i) < Len(norm)
            /\ IF OffsetOf(i) + chunk_size <= Len(norm)
               THEN /\ Len(chunks[i]) = chunk_size
                    /\ chunks[i] = SubSeq(norm, OffsetOf(i) + 1, OffsetOf(i) + chunk_size)
               ELSE /\ Len(chunks[i]) = Len(norm) - OffsetOf(i)
                    /\ chunks[i] = SubSeq(norm, OffsetOf(i) + 1, Len(norm))

\* C17 witness: a text was split into chunks of which one that is not the
\* last is shorter than chunk_size.
C17_Witness ==
    /\ ck_pc = "returned"
    /\ overlap < chunk_size
    /\ Len(norm) > chunk_size
    /\ Len(chunks) >= 3
    /\ Len(chunks[1]) = chunk_size
    /\ Len(chunks[Len(chunks) - 1]) < chunk_size
    /\ chunks[Len(chunks) - 1] =
           SubSeq(norm, OffsetOf(Len(chunks) - 1) + 1, Len(norm))

\* C17 as originally stated: chunk i starts at offset i * (chunk_size -
\* overlap) and every chunk except the final one has length chunk_size.
C17_Original ==
    (ck_pc = "returned" /\ overlap < chunk_size /\ Len(norm) > chunk_size) =>
        /\ \A i \in 1..Len(chunks) :
              chunks[i] = PySlice(norm, OffsetOf(i), OffsetOf(i) + chunk_size)
        /\ \A i \in 1..(Len(chunks) - 1) : Len(chunks[i]) = chunk_size

\* C18: for every text whose whitespace-normalized form is empty (the empty
\* text, any whitespace-only text) create_chunks returns the empty sequence,
\* and it never returns a chunk that is the empty string.
C18_EmptyInput ==
    ck_pc = "returned" =>
        /\ WhitespaceNormalized(text) = <<>> => chunks = <<>>
        /\ \A i \in 1..Len(chunks) : chunks[i] # <<>>

\* a chunk without its first k characters (nothing when it has no more)
DropFirst(c, k) == SubSeq(c, k + 1, Len(c))

\* the first chunk followed by every later chunk without its first `ov`
\* characters
RECURSIVE Reassemble(_, _)
Reassemble(cs, ov) ==
    IF cs = <<>> THEN <<>>
    ELSE IF Len(cs) = 1 THEN cs[1]
    ELSE Reassemble(SubSeq(cs, 1, Len(cs) - 1), ov) \o DropFirst(Last(cs), ov)

\* C19: for every text and 0 <= overlap < chunk_size, the chunks returned
\* cover the normalized text without a gap: every chunk has length at most
\* chunk_size, every position of the normalized text lies in a chunk, and the
\* first chunk followed by each later chunk without its first `overlap`
\* characters is the normalized text.
C19_Coverage ==
    (ck_pc = "returned" /\ overlap < chunk_size) =>
        LET n == WhitespaceNormalized(text)
        IN  /\ \A i \in 1..Len(chunks) : Len(chunks[i]) <= chunk_size
            /\ \A p \in 1..Len(n) :
                  \E i \in 1..Len(chunks) :
                      /\ p - OffsetOf(i) \in 1..Len(chunks[i])
                      /\ chunks[i][p - OffsetOf(i)] = n[p]
            /\ Reassemble(chunks, overlap) = n

\* C19 witness: a text that normalization changes was split into three or
\* more overlapping chunks, the last of them no longer than the overlap, and
\* is reproduced from them.
C19_Witness ==
    /\ ck_pc = "returned"
    /\ overlap > 0 /\ overlap < chunk_size
    /\ Len(chunks) >= 3
    /\ Len(Last(chunks)) <= overlap
    /\ WhitespaceNormalized(text) # text
    /\ Reassemble(chunks, overlap) = WhitespaceNormalized(text)

\* C12: called with overlap >= chunk_size, create_chunks fails fast: it
\* never enters its loop (which would not terminate and would grow the chunk
\* list for ever) and never returns a list as if the parameters were valid.
C12_FailsFast ==
    overlap >= chunk_size => (ck_pc # "loop" /\ ck_pc # "returned")

-----------------------------------------------------------------------------
(* Claims about RateLimiter.wait                                           *)

\* C6: any two consecutive permitted calls (wait() returns) are separated
\* by at least 1/rps.
C6_Spacing ==
    \A i \in 1..(Len(rl_recent) - 1) :
        rl_recent[i + 1] - rl_recent[i] >= rl_period

\* C7: any rpm + 1 permitted calls span at least one window, the limiter
\* never holds more than rpm entries, and a call that found the window full
\* returned only when the oldest entry it saw was a full window old.
C7_Window ==
    /\ Len(rl_timestamps) <= rl_rpm
    /\ Len(rl_recent) = rl_rpm + 1 => Last(rl_recent) - rl_recent[1] >= Window
    /\ (rl_obs.result = "returned" /\ rl_obs.full)
           => Last(rl_recent) - rl_obs.oldest >= Window

\* C7 witness: call number rpm + 1 found the window full, slept for it and
\* returned.
C7_Witness ==
    /\ rl_obs.result = "returned"
    /\ rl_obs.full
    /\ rl_obs.sleep2 > 0
    /\ rl_calls = rl_rpm + 1
    /\ Len(rl_recent) = rl_rpm + 1

\* C8: wait() never raises; it sleeps for a non-negative, bounded time, then
\* appends the time of its return to the window and returns.
C8_NeverFails ==
    /\ rl_obs.result # "raised"
    /\ rl_obs.result = "returned" =>
          /\ rl_obs.sleep1 >= 0 /\ rl_obs.sleep1 <= rl_period
          /\ rl_obs.sleep2 >= 0 /\ rl_obs.sleep2 <= Window
          /\ rl_timestamps # <<>>
          /\ Last(rl_timestamps) = Last(rl_recent)
          /\ Last(rl_timestamps) >= rl_obs.arrival + rl_obs.sleep1 + rl_obs.sleep2

\* C8 witness: a call that had to sleep for the spacing and for the window
\* returned.
C8_Witness ==
    /\ rl_obs.result = "returned"
    /\ rl_obs.sleep1 > 0
    /\ rl_obs.sleep2 > 0
    /\ Last(rl_timestamps) = clock

\* C16: whenever wait() has returned, last_time equals the timestamp it
\* appended to the window, and both were taken after all its waiting.
C16_LastTimeIsPermitTime ==
    rl_obs.result = "returned" =>
        /\ rl_last_time = Last(rl_timestamps)
        /\ rl_last_time >= rl_obs.arrival + rl_obs.sleep1 + rl_obs.sleep2

-----------------------------------------------------------------------------
(* Claims about get_embedding and get_caption_from_url                     *)

\* Number of the first attempt, among the first n, that the script lets
\* succeed; 0 when all of them fail.
FirstOk(n) ==
    IF \E k \in 1..n : script[k] = "ok"
    THEN CHOOSE k \in 1..n : script[k] = "ok" /\ \A j \in 1..(k - 1) : script[j] = "fail"
    ELSE 0

\* 2^0, 2^1, ..., 2^(k-1)
PowersOfTwo(k) == [i \in 1..k |-> 2 ^ (i - 1)]

\* C4: get_embedding with max_retries = N, the service failing on the first
\* k < N attempts and then succeeding, returns the vector of attempt k + 1
\* after exactly k + 1 attempts and the k sleeps 1, 2, ..., 2^(k-1); when the
\* service always fails it returns None after exactly N attempts, with no
\* sleep after the last one; it never raises.
C4_EmbedRetry ==
    /\ emb.pc # "raised"
    /\ emb.pc = "returned" =>
         LET k == FirstOk(emb.max)
         IN  IF k > 0
             THEN /\ emb.result = Some(Last(emb.log).val)
                  /\ Last(emb.log).kind = "ok"
                  /\ emb.tries = k
                  /\ emb.sleeps = PowersOfTwo(k - 1)
             ELSE /\ emb.result = None
                  /\ emb.tries = emb.max
                  /\ emb.sleeps = PowersOfTwo(emb.max - 1)

\* C4 witness: the service failed twice, then succeeded: the vector was
\* returned after the sleeps 1, 2.
C4_Witness ==
    /\ emb.pc = "returned"
    /\ emb.max = 3
    /\ script[1] = "fail" /\ script[2] = "fail" /\ script[3] = "ok"
    /\ emb.result.ok
    /\ emb.result.val # <<>>
    /\ emb.tries = 3
    /\ emb.sleeps = <<1, 2>>

\* C5: for the same max_retries and the same attempt outcomes,
\* get_caption_from_url and get_embedding make the same number of attempts
\* and the same sequence of backoff sleeps, and both return None when the
\* retries are exhausted.
C5_SameRetryShape ==
    (emb.pc = "returned" /\ cap.pc = "returned") =>
        /\ cap.tries = emb.tries
        /\ cap.sleeps = emb.sleeps
        /\ cap.result.ok <=> emb.result.ok

-----------------------------------------------------------------------------
(* Claims about main                                                       *)

\* content and url of the record that the processed item g would contribute
ContentOf(g) ==
    IF g.kind = "text" THEN text_chunks[g.item][1] ELSE ImagePrefix \o g.caption.val
UrlOf(g) ==
    IF g.kind = "text" THEN text_chunks[g.item][2] ELSE image_urls[g.item]

\* The processed items, in processing order: every text chunk, then every
\* image, each once.
ProcessedInOrder ==
    /\ Len(got) = Len(text_chunks) + Len(image_urls)
    /\ \A i \in 1..Len(text_chunks) : got[i].kind = "text" /\ got[i].item = i
    /\ \A i \in 1..Len(image_urls) :
          LET g == got[Len(text_chunks) + i]
          IN  g.kind = "image" /\ g.item = i

\* the embedding call of a processed item returned a vector (not None)
EmbedReturned(g) == g.embedded /\ g.embedding.ok
\* ... and that vector is not empty
EmbedUsable(g) == g.embedded /\ g.embedding.ok /\ g.embedding.val # <<>>

\* how many of the processed items had their embedding call return a vector
NumEmbedReturned == Cardinality({i \in 1..Len(got) : EmbedReturned(got[i])})

\* C1: at every point of the run, and in what is persisted, the three output
\* lists have equal length, every position holds the content, embedding and
\* url of one processed item, and no list is longer than the number of items
\* whose embedding was obtained.
C1_Aligned ==
    /\ Len(embeddings) = Len(valid_chunks)
    /\ Len(source_urls) = Len(valid_chunks)
    /\ \A p \in 1..Len(valid_chunks) :
          \E i \in 1..Len(got) :
              /\ EmbedReturned(got[i])
              /\ valid_chunks[p] = ContentOf(got[i])
              /\ embeddings[p] = got[i].embedding.val
              /\ source_urls[p] = UrlOf(got[i])
    /\ Len(embeddings) <= NumEmbedReturned
    /\ Len(source_urls) <= NumEmbedReturned
    /\ m_pc = "done" =>
          /\ saved = [chunks |-> valid_chunks, embeddings |-> embeddings,
                      source_urls |-> source_urls]
          /\ Len(saved.chunks) = Len(saved.embeddings)
          /\ Len(saved.chunks) = Len(saved.source_urls)

\* C1 witness: a run was persisted in which some item failed and a text
\* record is followed by an image record.
C1_Witness ==
    /\ m_pc = "done"
    /\ Len(saved.chunks) = 2
    /\ saved.source_urls[1][1] = "text-url"
    /\ saved.source_urls[2][1] = "image-url"
    /\ \E i \in 1..Len(got) : ~EmbedReturned(got[i])

\* The records, in order, of the processed items whose embedding call
\* returned a vector (nonEmpty = FALSE) or a non-empty vector (nonEmpty = TRUE).
RECURSIVE RecordsOf(_, _)
RecordsOf(q, nonEmpty) ==
    IF q = <<>> THEN NoSave
    ELSE LET rest == RecordsOf(SubSeq(q, 1, Len(q) - 1), nonEmpty)
             g    == Last(q)
         IN  IF (IF nonEmpty THEN EmbedUsable(g) ELSE EmbedReturned(g))
             THEN [chunks |-> Append(rest.chunks, ContentOf(g)),
                   embeddings |-> Append(rest.embeddings, g.embedding.val),
                   source_urls |-> Append(rest.source_urls, UrlOf(g))]
             ELSE rest

\* C2 (as amended): what is persisted is exactly, in processing order, one
\* record per text chunk for which get_embedding returned a non-empty vector,
\* then one record ("[IMAGE] " + caption, embedding, image url) per image for
\* which get_caption_from_url returned a non-empty caption and get_embedding
\* then returned a non-empty vector.
C2_Output ==
    m_pc = "done" =>
        /\ ProcessedInOrder
        /\ saved = RecordsOf(got, TRUE)

\* C2 witness: three or more items, one in the middle skipped, the others
\* persisted in order.
C2_Witness ==
    /\ m_pc = "done"
    /\ Len(got) >= 3
    /\ EmbedUsable(got[1]) /\ ~EmbedUsable(got[2]) /\ EmbedUsable(got[3])
    /\ saved.source_urls = <<UrlOf(got[1]), UrlOf(got[3])>>

\* C2 as originally stated: one record per item whose calls succeeded, that
\* is, returned a result.
C2_Original ==
    m_pc = "done" =>
        /\ ProcessedInOrder
        /\ saved = RecordsOf(got, FALSE)

\* C13: every embedding accepted into the output has the length of the
\* first accepted embedding; a vector of another length gives no record.
C13_UniformLength ==
    \A p \in 1..Len(embeddings) : Len(embeddings[p]) = Len(embeddings[1])

\* C14: when the table image_chunks is missing the image list is empty: the
\* run does not abort, processes no image and produces no image-derived
\* record, and has processed every text chunk, in order, when it ends.
C14_MissingImages ==
    ~db.image_table =>
        /\ m_pc # "aborted"
        /\ image_urls = <<>>
        /\ cap = Idle
        /\ \A i \in 1..Len(got) : got[i].kind = "text"
        /\ \A p \in 1..Len(valid_chunks) :
              /\ source_urls[p][1] # "image-url"
              /\ \E i \in 1..Len(text_chunks) : valid_chunks[p] = text_chunks[i][1]
        /\ m_pc \in {"image", "done"} =>
              /\ text_chunks = db.markdown \o db.discourse
              /\ Len(got) = Len(text_chunks)
              /\ \A i \in 1..Len(got) : got[i].item = i
        /\ m_pc = "done" => saved = RecordsOf(got, TRUE)

\* C14 witness: a run without the table image_chunks ended with a record for
\* every text chunk of both text tables.
C14_Witness ==
    /\ ~db.image_table
    /\ m_pc = "done"
    /\ db.markdown # <<>> /\ db.discourse # <<>>
    /\ Len(text_chunks) = MaxTexts
    /\ Len(saved.chunks) = MaxTexts
    /\ reported = MaxTexts

\* the requests issued for the items processed so far
RECURSIVE RequestsOf(_)
RequestsOf(q) ==
    IF q = <<>> THEN 0
    ELSE Head(q).cap_tries + Head(q).emb_tries + RequestsOf(Tail(q))

\* the requests issued so far in the run, those of the running calls included
RequestsSoFar == RequestsOf(got) + emb.tries + cap.tries

\* C15: every attempt of get_embedding and of get_caption_from_url passes
\* through wait() of the one limiter before its request, so the number of
\* wait() calls equals the number of attempts; and across the text and image
\* calls of the run the permitted calls keep the per-second spacing and the
\* per-minute window.
C15_SharedLimiter ==
    /\ rl_calls = RequestsSoFar
    /\ rl_obs.result # "raised"
    /\ Len(rl_recent) = rl_rpm + 1 => Last(rl_recent) - rl_recent[1] >= Window
    /\ \A i \in 1..(Len(rl_recent) - 1) :
          rl_recent[i + 1] - rl_recent[i] >= rl_period

\* the caption inside the content of an image record
CaptionIn(content) == SubSeq(content, Len(ImagePrefix) + 1, Len(content))

\* C20: main never appends a record whose embedding is the empty vector, nor
\* an image record whose caption is empty after trimming; when
\* get_caption_from_url returns an empty caption, get_embedding is not called
\* for that image and the image contributes no record.
C20_EmptySkipped ==
    /\ \A p \in 1..Len(embeddings) : embeddings[p] # <<>>
    /\ \A p \in 1..Len(valid_chunks) :
          source_urls[p][1] = "image-url" =>
              /\ SubSeq(valid_chunks[p], 1, Len(ImagePrefix)) = ImagePrefix
              /\ Strip(CaptionIn(valid_chunks[p])) # <<>>
    /\ (cap.pc = "returned" /\ Strip(cap.result.val) = <<>>) => emb = Idle
    /\ \A i \in 1..Len(got) :
          (got[i].kind = "image" /\ Strip(got[i].caption.val) = <<>>) =>
              /\ ~got[i].embedded
              /\ got[i].emb_tries = 0
              /\ \A p \in 1..Len(source_urls) : source_urls[p] # image_urls[got[i].item]

\* C20 witness: in a finished run a text chunk whose embedding came back as
\* the empty vector and an image whose caption was only whitespace were
\* skipped, the image without an embedding call, and the other text chunk
\* gave the only record.
C20_Witness ==
    /\ m_pc = "done"
    /\ \E i \in 1..Len(got) :
          /\ got[i].kind = "text"
          /\ got[i].embedding.ok /\ got[i].embedding.val = <<>>
    /\ \E i \in 1..Len(got) :
          /\ got[i].kind = "image"
          /\ got[i].caption.ok /\ got[i].caption.val = <<>>
          /\ ~got[i].embedded /\ got[i].emb_tries = 0
    /\ Len(saved.chunks) = 1
    /\ saved.source_urls[1][1] = "text-url"

\* the run has ended, having processed every item once and reported the
\* number of records it persisted
RunEnded ==
    /\ m_pc = "done"
    /\ ProcessedInOrder
    /\ reported = Len(saved.chunks)

\* C3: whatever the services do, the run reaches the persist step with every
\* text chunk and every image processed exactly once, and reports the number
\* of records produced.
C3_Terminates == <>RunEnded

\* C3 witness: every item was processed once and both embeddings were
\* accepted, np.savez refused the two vectors of different lengths, and the
\* run ended without a file and without a reported count.
C3_Witness ==
    /\ m_pc = "save_raised"
    /\ ProcessedInOrder
    /\ Len(embeddings) = 2
    /\ ~Homogeneous(embeddings)
    /\ saved = NoSave
    /\ reported = 0

\* Every run leaves the two loops and calls np.savez: no failure of an item
\* ends the run before the persist step.
SavezCalled == m_pc \in {"done", "save_raised"}

ReachesSavez == <>SavezCalled

\* np.savez raises only on embeddings of different lengths.
SavezRaisedOnlyOnRagged == m_pc = "save_raised" => ~Homogeneous(embeddings)

====
